---- MODULE Spec2Model ----
(***************************************************************************)
(* A model of envargparse.EnvArgParser: an argparse.ArgumentParser whose   *)
(* flag arguments may also be satisfied from an environment variable.      *)
(*                                                                         *)
(* Strings of the program (raw environment values, command-line tokens)    *)
(* are sequences of one-character strings, so that shell-word splitting    *)
(* and integer conversion are computed character by character.             *)
(***************************************************************************)
EXTENDS Integers, Sequences, FiniteSets, TLC

(***************************************************************************)
(* Bounds of the model.                                                    *)
(***************************************************************************)
\* user arguments declared on one parser (besides the built-in -h)
MaxArgs == 2
\* tokens on one command line
MaxArgv == 2
\* top-level parse calls made on one parser
MaxPasses == 2
\* the count of an integer nargs (nargs=N)
ExactN == 2

(***************************************************************************)
(* Values: what a namespace attribute can hold.                            *)
(***************************************************************************)
IntV(n) == [ty |-> "int", n |-> n, s |-> <<>>]

StrV(s) == [ty |-> "str", n |-> 0, s |-> s]

One(e) == [kind |-> "one", items |-> <<e>>]

List(es) == [kind |-> "list", items |-> es]

None == [kind |-> "none", items |-> <<>>]

\* argparse.SUPPRESS, the marker (it is a str in Python: "==SUPPRESS==")
SUPPRESS == [kind |-> "suppress", items |-> <<>>]

Ok(v) == [ok |-> TRUE, val |-> v]

\* an argparse.ArgumentError raised while computing a value
ArgumentError == [ok |-> FALSE, val |-> None]

(***************************************************************************)
(* type=int: Python's int(str) on the characters the model uses: leading   *)
(* and trailing blanks are ignored, what is left must be decimal digits.   *)
(***************************************************************************)
Digits == <<"0", "1", "2", "3", "4", "5", "6", "7", "8", "9">>

IsDigit(c) == \E i \in 1..Len(Digits) : Digits[i] = c

DigitVal(c) == (CHOOSE i \in 1..Len(Digits) : Digits[i] = c) - 1

RECURSIVE LStrip(_)
LStrip(s) == IF s # <<>> /\ Head(s) = " " THEN LStrip(Tail(s)) ELSE s

RECURSIVE RStrip(_)
RStrip(s) ==
    IF s # <<>> /\ s[Len(s)] = " " THEN RStrip(SubSeq(s, 1, Len(s) - 1)) ELSE s

RECURSIVE DecimalOf(_)
DecimalOf(s) ==
    IF s = <<>> THEN 0
    ELSE 10 * DecimalOf(SubSeq(s, 1, Len(s) - 1)) + DigitVal(s[Len(s)])

int_digits(t) ==
    IF t # <<>> /\ \A i \in 1..Len(t) : IsDigit(t[i])
    THEN [ok |-> TRUE, val |-> IntV(DecimalOf(t))]
    ELSE [ok |-> FALSE, val |-> IntV(0)]

int(s) == int_digits(RStrip(LStrip(s)))

(***************************************************************************)
(* shlex.split(v) in POSIX mode, for strings of blanks, single quotes and  *)
(* ordinary characters.  st is "out" (between words), "in" (inside a word) *)
(* or "quote" (inside a quoted section of a word).  An unclosed quote is   *)
(* the ValueError "No closing quotation".                                  *)
(***************************************************************************)
RECURSIVE shlex_scan(_, _, _, _, _)
shlex_scan(v, i, st, tok, done) ==
    IF i > Len(v)
    THEN CASE st = "quote" -> [ok |-> FALSE, toks |-> <<>>]
           [] st = "in"    -> [ok |-> TRUE, toks |-> Append(done, tok)]
           [] OTHER        -> [ok |-> TRUE, toks |-> done]
    ELSE LET c == v[i]
         IN  CASE st = "quote" /\ c = "'" -> shlex_scan(v, i + 1, "in", tok, done)
               [] st = "quote" /\ c # "'" ->
                      shlex_scan(v, i + 1, "quote", Append(tok, c), done)
               [] st # "quote" /\ c = "'" -> shlex_scan(v, i + 1, "quote", tok, done)
               [] st = "in" /\ c = " " ->
                      shlex_scan(v, i + 1, "out", <<>>, Append(done, tok))
               [] st = "out" /\ c = " " -> shlex_scan(v, i + 1, "out", <<>>, done)
               [] OTHER -> shlex_scan(v, i + 1, "in", Append(tok, c), done)

shlex_split(v) == shlex_scan(v, 1, "out", <<>>, <<>>)

(***************************************************************************)
(* Declared arguments.  An element of _actions is one EnvArgAction (the    *)
(* container of line 319 around an argparse store action):                 *)
(*   option_strings  the flag token, <<>> for a positional                 *)
(*   dest            the namespace attribute, SuppressDest for -h           *)
(*   nargs           "None", "?", "*", "+", "N" (the integer ExactN) or     *)
(*                   "0" (the help action)                                  *)
(*   const, default  values                                                 *)
(*   type            "int" or "None" (the identity on strings)              *)
(*   required        BOOLEAN                                                *)
(*   env_var         the EnvArgRecord (a, k, f, v, p) when has, where a is  *)
(*                   the position in _actions of the action it refers to    *)
(*   call_count      EnvArgAction.call_count                                *)
(***************************************************************************)
SuppressDest == "==SUPPRESS=="

NoRecord == [has |-> FALSE, a |-> 0, k |-> "", f |-> "env_var_parse", v |-> <<>>, p |-> FALSE]

\* The flag token and the dest of the n-th action of a parser: names are
\* given by position, so that no two arguments of a parser collide.
FlagNames == << <<"-", "h">>, <<"-", "-", "a">>, <<"-", "-", "b">>,
                <<"-", "-", "c">>, <<"-", "-", "d">> >>

DestNames == <<SuppressDest, "a", "b", "c", "d">>

\* The -h action argparse.ArgumentParser.__init__ declares (add_help=True).
HelpAction ==
    [option_strings |-> FlagNames[1], dest |-> SuppressDest, nargs |-> "0",
     const |-> None, default |-> SUPPRESS, type |-> "None", required |-> FALSE,
     env_var |-> NoRecord, call_count |-> 0]

IsPositional(action) == action.option_strings = <<>>

\* The static default every user argument is declared with (default=22).
StaticDefault == One(IntV(22))

\* The value a caller-supplied namespace already holds for an attribute.
Preexisting == One(IntV(7))

(***************************************************************************)
(* ArgumentParser._match_argument(action, "A" * n): the number of leading  *)
(* tokens the nargs pattern consumes out of n, or an ArgumentError when    *)
(* the pattern does not match (re.match of the nargs pattern, greedy and   *)
(* anchored at the start only).                                            *)
(***************************************************************************)
\* _match_argument consuming the fewest tokens the pattern allows
_match_argument_minimal(action, n) ==
    CASE action.nargs = "None" ->
             IF n >= 1 THEN [ok |-> TRUE, n |-> 1] ELSE [ok |-> FALSE, n |-> 0]
      [] action.nargs = "?" -> [ok |-> TRUE, n |-> 0]
      [] action.nargs = "*" -> [ok |-> TRUE, n |-> 0]
      [] action.nargs = "+" ->
             IF n >= 1 THEN [ok |-> TRUE, n |-> 1] ELSE [ok |-> FALSE, n |-> 0]
      [] action.nargs = "N" ->
             IF n >= ExactN THEN [ok |-> TRUE, n |-> ExactN]
             ELSE [ok |-> FALSE, n |-> 0]
      [] OTHER -> [ok |-> TRUE, n |-> 0]

_match_argument(action, n) ==
    CASE action.nargs = "None" ->
             IF n >= 1 THEN [ok |-> TRUE, n |-> 1] ELSE [ok |-> FALSE, n |-> 0]
      [] action.nargs = "?" -> [ok |-> TRUE, n |-> IF n >= 1 THEN 1 ELSE 0]
      [] action.nargs = "*" -> [ok |-> TRUE, n |-> n]
      [] action.nargs = "+" ->
             IF n >= 1 THEN [ok |-> TRUE, n |-> n] ELSE [ok |-> FALSE, n |-> 0]
      [] action.nargs = "N" ->
             IF n >= ExactN THEN [ok |-> TRUE, n |-> ExactN]
             ELSE [ok |-> FALSE, n |-> 0]
      [] OTHER -> [ok |-> TRUE, n |-> 0]

(***************************************************************************)
(* ArgumentParser._get_value: the type conversion of one token; a failed   *)
(* conversion is an ArgumentError.                                         *)
(***************************************************************************)
_get_value(action, arg_string) ==
    IF action.type = "int" THEN int(arg_string)
    ELSE [ok |-> TRUE, val |-> StrV(arg_string)]

\* the conversions h of the first token and t of the others, together
ConvertCons(h, t) == [ok |-> h.ok /\ t.ok, items |-> <<h.val>> \o t.items]

RECURSIVE ConvertAll(_, _)
ConvertAll(action, arg_strings) ==
    IF arg_strings = <<>> THEN [ok |-> TRUE, items |-> <<>>]
    ELSE ConvertCons(_get_value(action, Head(arg_strings)),
                     ConvertAll(action, Tail(arg_strings)))

\* The str value "==SUPPRESS==" run through the type function, as
\* _get_values does with a str const: type int rejects it.
ConvertConst(action) ==
    IF action.const = SUPPRESS
    THEN IF action.type = "int" THEN ArgumentError ELSE Ok(SUPPRESS)
    ELSE Ok(action.const)

(***************************************************************************)
(* ArgumentParser._get_values(action, arg_strings), reached through        *)
(* EnvArgAction.get_values: the value of an argument from its tokens.      *)
(* suppressed: the action's nargs is SUPPRESS for the time of this parse   *)
(* (a positional during the first half of an intermixed parse).            *)
(***************************************************************************)
OneValue(c) == IF c.ok THEN Ok(One(c.val)) ELSE ArgumentError

ListValue(c) == IF c.ok THEN Ok(List(c.items)) ELSE ArgumentError

get_values(action, arg_strings, suppressed) ==
    CASE suppressed -> Ok(SUPPRESS)
      [] ~suppressed /\ arg_strings = <<>> /\ action.nargs = "?" ->
             IF IsPositional(action) THEN Ok(action.default) ELSE ConvertConst(action)
      [] ~suppressed /\ Len(arg_strings) = 1 /\ action.nargs \in {"None", "?"} ->
             OneValue(_get_value(action, arg_strings[1]))
      [] OTHER -> ListValue(ConvertAll(action, arg_strings))

(***************************************************************************)
(* EnvArgParser._get_values: marks the action seen, then delegates.        *)
(* a is the position of the action in acts.                                *)
(***************************************************************************)
_get_values(acts, seen, a, arg_strings, suppressed) ==
    [seen |-> seen \cup {a}, res |-> get_values(acts[a], arg_strings, suppressed)]

(***************************************************************************)
(* EnvArgParser.env_var_parse(p, a, k, v): the built-in parser of an       *)
(* environment value.  status is "ok", "ArgumentError" (arity or            *)
(* conversion) or "ValueError" (shlex.split).                              *)
(***************************************************************************)
\* env_var_values returning no leftover tokens
env_var_values_drops_leftover(v, n, g) ==
    IF g.res.ok
    THEN [status |-> "ok", val |-> g.res.val, extra |-> <<>>, seen |-> g.seen]
    ELSE [status |-> "ArgumentError", val |-> None, extra |-> <<>>, seen |-> g.seen]

\* line 242: g is what _get_values gave for v[:n]
env_var_values(v, n, g) ==
    IF g.res.ok
    THEN [status |-> "ok", val |-> g.res.val, extra |-> SubSeq(v, n + 1, Len(v)),
          seen |-> g.seen]
    ELSE [status |-> "ArgumentError", val |-> None, extra |-> <<>>, seen |-> g.seen]

\* lines 239-242: m is what _match_argument gave for the tokens v
env_var_match(acts, seen, a, v, m) ==
    IF m.ok
    THEN env_var_values(v, m.n, _get_values(acts, seen, a, SubSeq(v, 1, m.n), FALSE))
    ELSE [status |-> "ArgumentError", val |-> None, extra |-> <<>>, seen |-> seen]

\* lines 235-242: sp is what shlex.split gave
env_var_tokens(acts, seen, a, sp) ==
    IF sp.ok
    THEN env_var_match(acts, seen, a, sp.toks, _match_argument(acts[a], Len(sp.toks)))
    ELSE [status |-> "ValueError", val |-> None, extra |-> <<>>, seen |-> seen]

env_var_parse(acts, seen, a, v) == env_var_tokens(acts, seen, a, shlex_split(v))

(***************************************************************************)
(* A caller's own parser given as env_var_parse=: it does not tokenize,    *)
(* match or call _get_values; it returns the length of the raw value, or   *)
(* SUPPRESS for an empty value, and one leftover token.                    *)
(***************************************************************************)
custom_parse(acts, seen, a, v) ==
    [status |-> "ok", val |-> IF v = <<>> THEN SUPPRESS ELSE One(IntV(Len(v))),
     extra |-> << <<"c">> >>, seen |-> seen]

(***************************************************************************)
(* EnvArgAction.__call__ around a store action: count the call, then set   *)
(* the namespace attribute.                                                *)
(***************************************************************************)
__call__(acts, ns, a, values) ==
    [acts |-> [acts EXCEPT ![a].call_count = @ + 1],
     ns   |-> (acts[a].dest :> values) @@ ns]

(***************************************************************************)
(* argparse.ArgumentParser.parse_known_args, the function setup_parse      *)
(* wraps.  The state of one parse is a record st:                          *)
(*   status  "ok", or "exit" once self.error() has raised SystemExit       *)
(*   error   what self.error() was called for: "ArgumentError" (a flag's   *)
(*           tokens do not match its nargs, or a token does not convert)   *)
(*           or "required" (a required argument was not given)             *)
(*   acts    the actions (their call counts change)                        *)
(*   seen    EnvArgParser.seen_actions                                     *)
(*   lseen   argparse's own, local seen_actions of this parse              *)
(*   ns      the namespace;  extras  the unrecognized tokens               *)
(* mode is "normal", or the half of an intermixed parse: "sub1" (every     *)
(* positional has nargs and default SUPPRESS) or "sub2" (no optional is    *)
(* required).                                                              *)
(***************************************************************************)
IsOptionString(tok) == tok # <<>> /\ tok[1] = "-"

\* the position of the action a flag token names, 0 when there is none
OptionAction(acts, tok) ==
    IF \E a \in 1..Len(acts) : acts[a].option_strings = tok
    THEN CHOOSE a \in 1..Len(acts) : acts[a].option_strings = tok
    ELSE 0

\* the positions of the positionals, in declaration order
RECURSIVE Positionals(_, _)
Positionals(acts, a) ==
    IF a > Len(acts) THEN <<>>
    ELSE (IF IsPositional(acts[a]) THEN <<a>> ELSE <<>>) \o Positionals(acts, a + 1)

\* the number of consecutive non-flag tokens of args from position i on
RECURSIVE ArgRun(_, _)
ArgRun(args, i) ==
    IF i > Len(args) \/ IsOptionString(args[i]) THEN 0 ELSE 1 + ArgRun(args, i + 1)

\* the parse state once the action has been called and gave c
take_called(st, c) == [st EXCEPT !.acts = c.acts, !.ns = c.ns]

\* _parse_known_args::take_action once _get_values has given g: the action
\* is added to argparse's seen set, and called unless the value is SUPPRESS
take_values(st, a, g) ==
    CASE ~g.res.ok ->
             [st EXCEPT !.seen = g.seen, !.lseen = @ \cup {a}, !.status = "exit",
                        !.error = "ArgumentError"]
      [] g.res.ok /\ g.res.val = SUPPRESS ->
             [st EXCEPT !.seen = g.seen, !.lseen = @ \cup {a}]
      [] OTHER ->
             take_called([st EXCEPT !.seen = g.seen, !.lseen = @ \cup {a}],
                         __call__(st.acts, st.ns, a, g.res.val))

take_action(st, a, arg_strings, suppressed) ==
    take_values(st, a, _get_values(st.acts, st.seen, a, arg_strings, suppressed))

\* _parse_known_args::consume_positionals on a run of non-flag tokens:
\* each pending positional (nargs None) takes one token
RECURSIVE consume_positionals(_, _, _)
consume_positionals(st, pend, toks) ==
    IF st.status # "ok" \/ pend = <<>> \/ toks = <<>> THEN st
    ELSE consume_positionals(take_action(st, Head(pend), <<Head(toks)>>, FALSE),
                             Tail(pend), Tail(toks))

\* the same while the positionals are deactivated: each matches no token
RECURSIVE consume_suppressed(_, _)
consume_suppressed(st, pend) ==
    IF st.status # "ok" \/ pend = <<>> THEN st
    ELSE consume_suppressed(take_action(st, Head(pend), <<>>, TRUE), Tail(pend))

Min(x, y) == IF x < y THEN x ELSE y

add_extras(st, toks) == [st EXCEPT !.extras = @ \o toks]

\* the main loop of _parse_known_args from token i on
RECURSIVE consume(_, _, _, _, _)
RECURSIVE consume_optional(_, _, _, _, _, _)
RECURSIVE consume_matched(_, _, _, _, _, _, _)
RECURSIVE consume_run(_, _, _, _, _, _, _)
consume(args, i, pend, st, mode) ==
    IF st.status # "ok" THEN st
    ELSE IF i > Len(args)
    THEN IF mode = "sub1" THEN consume_suppressed(st, pend) ELSE st
    ELSE IF IsOptionString(args[i])
    THEN consume_optional(args, i, pend, st, mode, OptionAction(st.acts, args[i]))
    ELSE consume_run(args, i, pend, st, mode, ArgRun(args, i),
                     IF mode = "sub1" THEN 0 ELSE Min(Len(pend), ArgRun(args, i)))

\* _parse_known_args::consume_optional: token i is a flag, a the position of
\* its action (0: the flag is unknown and goes to the extras)
consume_optional(args, i, pend, st, mode, a) ==
    IF a = 0
    THEN consume(args, i + 1, pend, [st EXCEPT !.extras = Append(@, args[i])], mode)
    ELSE consume_matched(args, i, pend, st, mode, a,
                         _match_argument(st.acts[a], ArgRun(args, i + 1)))

\* the flag's arity matched the tokens after it as m says
consume_matched(args, i, pend, st, mode, a, m) ==
    IF ~m.ok THEN [st EXCEPT !.status = "exit", !.error = "ArgumentError"]
    ELSE consume(args, i + 1 + m.n, pend,
                 take_action(st, a, SubSeq(args, i + 1, i + m.n), FALSE), mode)

\* tokens i .. i+run-1 are not flags: the first k go to the pending
\* positionals, the others to the extras
consume_run(args, i, pend, st, mode, run, k) ==
    consume(args, i + run,
            IF mode = "sub1" THEN <<>> ELSE SubSeq(pend, k + 1, Len(pend)),
            add_extras(IF mode = "sub1" THEN consume_suppressed(st, pend)
                       ELSE consume_positionals(st, pend, SubSeq(args, i, i + k - 1)),
                       SubSeq(args, i + k, i + run - 1)),
            mode)

\* the defaults parse_known_args sets on attributes the namespace lacks
RECURSIVE add_defaults(_, _, _, _)
add_defaults(acts, a, ns, mode) ==
    IF a > Len(acts) THEN ns
    ELSE LET d == IF mode = "sub1" /\ IsPositional(acts[a]) THEN SUPPRESS
                  ELSE acts[a].default
         IN  IF acts[a].dest # SuppressDest /\ acts[a].dest \notin DOMAIN ns
                /\ d # SUPPRESS
             THEN add_defaults(acts, a + 1, (acts[a].dest :> d) @@ ns, mode)
             ELSE add_defaults(acts, a + 1, ns, mode)

\* whether the action counts as required during this parse
IsRequired(action, mode) ==
    IF mode = "sub2" /\ ~IsPositional(action) THEN FALSE ELSE action.required

\* the end of parse_known_args: a required action argparse has not seen
\* is an error
required_actions(acts, mode, st) ==
    IF /\ st.status = "ok"
       /\ \E a \in 1..Len(acts) : a \notin st.lseen /\ IsRequired(acts[a], mode)
    THEN [st EXCEPT !.status = "exit", !.error = "required"]
    ELSE st

parse_known_args(acts, seen, args, ns, mode) ==
    required_actions(acts, mode,
        consume(args, 1, Positionals(acts, 1),
                [status |-> "ok", error |-> "", acts |-> acts, seen |-> seen,
                 lseen |-> {}, ns |-> add_defaults(acts, 1, ns, mode),
                 extras |-> <<>>],
                mode))

(***************************************************************************)
(* EnvArgParser.parse_args_post(namespace, arg_extras) under               *)
(* argument_error_and_exit.  ps is the state of the loop:                  *)
(*   status     "ok"; "exit" when an ArgumentError was handed to           *)
(*              self.error(); "ValueError" when another exception left the *)
(*              method uncaught                                            *)
(*   processed  the actions whose environment parser i.f was called, in    *)
(*              the order of the calls                                     *)
(*   called     those of them whose action was then called with the value  *)
(***************************************************************************)
env_f(acts, seen, a) ==
    IF acts[a].env_var.f = "env_var_parse"
    THEN env_var_parse(acts, seen, acts[a].env_var.a, acts[a].env_var.v)
    ELSE custom_parse(acts, seen, acts[a].env_var.a, acts[a].env_var.v)

\* the conditions under which the loop passes over an action (continue)
post_skips(acts, seen, a) ==
    \/ acts[a].dest = SuppressDest
    \/ (acts[a].call_count > 0 /\ a \in seen)
    \/ ~acts[a].env_var.has
    \/ acts[a].env_var.a # a
    \/ ~acts[a].env_var.p

\* line 225: the action was called with the environment's value and gave c
post_called(ps, a, c) ==
    [ps EXCEPT !.acts = c.acts, !.ns = c.ns, !.called = Append(@, a)]

RECURSIVE post_loop(_, _)
RECURSIVE post_value(_, _, _)

\* post_loop without line 213
post_loop_without_mark(ps, a) ==
    IF a > Len(ps.acts) \/ ps.status # "ok" THEN ps
    ELSE IF post_skips(ps.acts, ps.seen, a) THEN post_loop(ps, a + 1)
    ELSE post_value([ps EXCEPT !.processed = Append(@, a)], a,
                    env_f(ps.acts, ps.seen, a))

post_loop(ps, a) ==
    IF a > Len(ps.acts) \/ ps.status # "ok" THEN ps
    ELSE IF post_skips(ps.acts, ps.seen, a) THEN post_loop(ps, a + 1)
    ELSE post_value([ps EXCEPT !.seen = @ \cup {a}, !.processed = Append(@, a)], a,
                    env_f(ps.acts, ps.seen \cup {a}, a))

\* post_value without the test of lines 221-222
post_value_applies_suppressed(ps, a, r) ==
    CASE r.status = "ArgumentError" ->
             [ps EXCEPT !.seen = r.seen, !.status = "exit", !.error = "ArgumentError"]
      [] r.status = "ValueError" ->
             [ps EXCEPT !.seen = r.seen, !.status = "ValueError",
                        !.error = "ValueError"]
      [] OTHER ->
             post_loop(post_called([ps EXCEPT !.seen = r.seen, !.extras = @ \o r.extra],
                                   a, __call__(ps.acts, ps.ns, ps.acts[a].env_var.a,
                                               r.val)),
                       a + 1)

\* post_value putting the leftover tokens in front of the extras
post_value_prepends_leftover(ps, a, r) ==
    CASE r.status = "ArgumentError" ->
             [ps EXCEPT !.seen = r.seen, !.status = "exit", !.error = "ArgumentError"]
      [] r.status = "ValueError" ->
             [ps EXCEPT !.seen = r.seen, !.status = "ValueError",
                        !.error = "ValueError"]
      [] r.status = "ok" /\ r.val = SUPPRESS ->
             post_loop([ps EXCEPT !.seen = r.seen, !.extras = r.extra \o @], a + 1)
      [] OTHER ->
             post_loop(post_called([ps EXCEPT !.seen = r.seen, !.extras = r.extra \o @],
                                   a, __call__(ps.acts, ps.ns, ps.acts[a].env_var.a,
                                               r.val)),
                       a + 1)

\* lines 215-225: i.f gave r for the action at a, which line 213 has marked
post_value(ps, a, r) ==
    CASE r.status = "ArgumentError" ->
             [ps EXCEPT !.seen = r.seen, !.status = "exit", !.error = "ArgumentError"]
      [] r.status = "ValueError" ->
             [ps EXCEPT !.seen = r.seen, !.status = "ValueError",
                        !.error = "ValueError"]
      [] r.status = "ok" /\ r.val = SUPPRESS ->
             post_loop([ps EXCEPT !.seen = r.seen, !.extras = @ \o r.extra], a + 1)
      [] OTHER ->
             post_loop(post_called([ps EXCEPT !.seen = r.seen, !.extras = @ \o r.extra],
                                   a, __call__(ps.acts, ps.ns, ps.acts[a].env_var.a,
                                               r.val)),
                       a + 1)

parse_args_post(acts, seen, ns, extras) ==
    post_loop([status |-> "ok", error |-> "", acts |-> acts, seen |-> seen,
               ns |-> ns, extras |-> extras, processed |-> <<>>, called |-> <<>>], 1)

(***************************************************************************)
(* The state of the program.                                               *)
(***************************************************************************)
VARIABLES
    environ,         \* os.environ: key -> raw value, for the keys that are set
    _actions,        \* the parser's declared actions, in declaration order
    seen_actions,    \* EnvArgParser.seen_actions: positions in _actions
    _parsing_depth,  \* EnvArgParser._parsing_depth
    stack,           \* the setup_parse calls in progress, outermost first
    namespace,       \* the namespace object of the call in progress
    arg_extras,      \* the extras list of the call in progress
    outcome,         \* "idle", "running", "returned", "exit", "ValueError"
    call,            \* the arguments of the top-level parse call
    decl,            \* the last add_argument call and how it ended
    declared,        \* the kwargs each action of _actions was declared with
    passes,          \* top-level parse calls made so far
    hist             \* what the top-level call in progress has done so far

vars == <<environ, _actions, seen_actions, _parsing_depth, stack, namespace,
          arg_extras, outcome, call, decl, declared, passes, hist>>

(***************************************************************************)
(* Inputs.                                                                 *)
(***************************************************************************)
\* raw environment values:  "",  "1",  "1 '2 ' 3",  "x",  "'1"
RawValues ==
    { <<>>,
      <<"1">>,
      <<"1", " ", "'", "2", " ", "'", " ", "3">>,
      <<"x">>,
      <<"'", "1">> }

EnvKeys == {"BAR"}

Environments ==
    UNION { [K -> RawValues] : K \in SUBSET EnvKeys }

\* m.get(k, f) with the membership test, as the map_f lambda returns them
map_f(m, k, f) == [k |-> k, in |-> k \in DOMAIN m, v |-> IF k \in DOMAIN m THEN m[k] ELSE f]

\* The keyword arguments of add_argument.  env is the part add_argument
\* pops: a function on a subset of {"env_var", "env_var_parse"}; ok says
\* that the value has the type asked of it (a str key, a callable parser).
EnvKwargs ==
    UNION { [K -> [ok : BOOLEAN, name : {"BAR"}]] :
                K \in SUBSET {"env_var", "env_var_parse"} }

\* Declarations argparse itself accepts: const matters to nargs "?" only,
\* and a positional takes one token and no required=.
FullKwargs ==
    { kw \in [positional : BOOLEAN, nargs : {"None", "?", "*", "+", "N"},
              const : {None, SUPPRESS}, type : {"int", "None"},
              required : BOOLEAN, env : EnvKwargs] :
        /\ kw.const = SUPPRESS => kw.nargs = "?"
        /\ kw.positional => (kw.nargs = "None" /\ ~kw.required) }

\* The declarations used when a parser gets several arguments.
PairKwargs ==
    { kw \in FullKwargs :
        /\ kw.nargs \in {"None", "N", "?"}
        /\ kw.const = None
        /\ kw.type = "int"
        /\ ~kw.required
        /\ "env_var_parse" \notin DOMAIN kw.env
        /\ \A k \in DOMAIN kw.env : kw.env[k].ok }

\* The tokens of a command line: the parser's flags and one value, "5".
ArgvTokens(acts) ==
    ({ acts[a].option_strings : a \in 2..Len(acts) } \ {<<>>}) \cup { <<"5">> }

Argvs(acts) == UNION { [1..n -> ArgvTokens(acts)] : n \in 0..MaxArgv }

\* The namespaces a caller passes: any of the attributes already set.
Namespaces(acts) ==
    LET dests == { acts[a].dest : a \in 1..Len(acts) } \ {SuppressDest}
    IN  UNION { [D -> {Preexisting}] : D \in SUBSET dests }

EmptyNs == [d \in {} |-> Preexisting]

NoDecl == [called |-> FALSE]

NoCall == [f |-> "none"]

NoHist == [clears |-> 0, posts |-> 0, nested_clears |-> 0, nested_posts |-> 0,
           marked |-> {}, error |-> "", post |-> [ran |-> FALSE]]

Init ==
    /\ environ \in Environments
    /\ _actions = <<HelpAction>>
    /\ seen_actions = {}
    /\ _parsing_depth = 0
    /\ stack = <<>>
    /\ namespace = EmptyNs
    /\ arg_extras = <<>>
    /\ outcome = "idle"
    /\ call = NoCall
    /\ decl = NoDecl
    /\ declared = <<NoDecl>>
    /\ passes = 0
    /\ hist = NoHist

(***************************************************************************)
(* EnvArgParser.add_argument, with _add_action.                             *)
(***************************************************************************)
\* ArgumentParser.add_argument + EnvArgParser._add_action: the new action,
\* wrapped in an EnvArgAction with call_count 0, at the end of _actions
_add_action(acts, kw) ==
    Append(acts,
           [option_strings |-> IF kw.positional THEN <<>> ELSE FlagNames[Len(acts) + 1],
            dest |-> DestNames[Len(acts) + 1],
            nargs |-> kw.nargs, const |-> kw.const, default |-> StaticDefault,
            type |-> kw.type,
            required |-> IF kw.positional THEN TRUE ELSE kw.required,
            env_var |-> NoRecord, call_count |-> 0])

\* attach_record with the relaxation of line 127-128 left out
attach_record_keeps_required(acts, a, env_k, env_f_, env_v) ==
    [acts EXCEPT ![a].env_var = [has |-> TRUE, a |-> a, k |-> env_k.v.name,
                                 f |-> env_f_.v.name, v |-> env_v.v,
                                 p |-> env_v.in]]

\* lines 126-136: relax required and attach the EnvArgRecord
attach_record(acts, a, env_k, env_f_, env_v) ==
    [acts EXCEPT ![a].required = IF env_v.in /\ @ THEN FALSE ELSE @,
                 ![a].env_var = [has |-> TRUE, a |-> a, k |-> env_k.v.name,
                                 f |-> env_f_.v.name, v |-> env_v.v,
                                 p |-> env_v.in]]

\* add_argument without the check of lines 103-104
add_argument_accepts_positional(kw) ==
    LET env_k  == map_f(kw.env, "env_var", [ok |-> TRUE, name |-> ""])
        env_f_ == map_f(kw.env, "env_var_parse", [ok |-> TRUE, name |-> "env_var_parse"])
        fn     == [env_f_ EXCEPT !.v.name = IF env_f_.in THEN "custom" ELSE @]
        added  == _add_action(_actions, kw)
        env_v  == map_f(environ, env_k.v.name, <<>>)
        early  == \/ (env_k.in /\ ~env_k.v.ok)
                  \/ (env_f_.in /\ ~env_k.in)
                  \/ (env_f_.in /\ ~env_f_.v.ok)
    IN  /\ outcome = "idle"
        /\ passes = 0
        /\ _actions' =
              CASE early -> _actions
                [] ~early /\ env_k.in ->
                       attach_record(added, Len(added), env_k, fn, env_v)
                [] OTHER -> added
        /\ decl' = [called |-> TRUE, kw |-> kw, raised |-> early, before |-> _actions]
        /\ declared' = IF early THEN declared ELSE Append(declared, kw)
        /\ UNCHANGED <<environ, seen_actions, _parsing_depth, stack, namespace,
                       arg_extras, outcome, call, passes, hist>>

add_argument(kw) ==
    LET env_k  == map_f(kw.env, "env_var", [ok |-> TRUE, name |-> ""])
        env_f_ == map_f(kw.env, "env_var_parse", [ok |-> TRUE, name |-> "env_var_parse"])
        fn     == [env_f_ EXCEPT !.v.name = IF env_f_.in THEN "custom" ELSE @]
        added  == _add_action(_actions, kw)
        env_v  == map_f(environ, env_k.v.name, <<>>)
        early  == \/ (env_k.in /\ ~env_k.v.ok)
                  \/ (env_f_.in /\ ~env_k.in)
                  \/ (env_f_.in /\ ~env_f_.v.ok)
        late   == env_k.in /\ IsPositional(added[Len(added)])
    IN  /\ outcome = "idle"
        /\ passes = 0
        /\ _actions' =
              CASE early -> _actions
                [] ~early /\ late -> added
                [] ~early /\ ~late /\ env_k.in ->
                       attach_record(added, Len(added), env_k, fn, env_v)
                [] OTHER -> added
        /\ decl' = [called |-> TRUE, kw |-> kw, raised |-> early \/ late,
                    before |-> _actions]
        /\ declared' = IF early THEN declared ELSE Append(declared, kw)
        /\ UNCHANGED <<environ, seen_actions, _parsing_depth, stack, namespace,
                       arg_extras, outcome, call, passes, hist>>

(***************************************************************************)
(* The parsing_depth property: the setter keeps it at or above zero.       *)
(***************************************************************************)
parsing_depth_set(value) == IF value > 0 THEN value ELSE 0

\* unwind without the decrement of the finally clauses
unwind_keeps_depth(depth, n) == depth

\* the finally clause of n setup_parse calls that an exception leaves
RECURSIVE unwind(_, _)
unwind(depth, n) == IF n = 0 THEN depth ELSE unwind(parsing_depth_set(depth - 1), n - 1)

\* setup_parse_enter with run_setup true at every depth
setup_parse_enter_always_resets(f, args, mode, h) ==
    /\ seen_actions' = {}
    /\ _parsing_depth' = parsing_depth_set(_parsing_depth + 1)
    /\ stack' = Append(stack, [f |-> f, run_setup |-> TRUE, args |-> args,
                               mode |-> mode, stage |-> 0])
    /\ hist' = [h EXCEPT !.clears = @ + 1,
                         !.nested_clears = IF stack # <<>> THEN @ + 1 ELSE @]

(***************************************************************************)
(* setup_parse, lines 152-157: what a decorated parse method does before   *)
(* it calls the wrapped function f.  A frame of stack is one such call:    *)
(*   f          "parse_known_args" or "parse_known_intermixed_args"        *)
(*   run_setup  the local of line 152                                      *)
(*   args       the tokens it was called with                              *)
(*   mode       how argparse has set the actions up for it (see            *)
(*              parse_known_args)                                          *)
(*   stage      for the intermixed method, how many of its two calls of    *)
(*              parse_known_args have returned                             *)
(***************************************************************************)
setup_parse_enter(f, args, mode, h) ==
    LET run_setup == _parsing_depth = 0
    IN  /\ seen_actions' = IF run_setup THEN {} ELSE seen_actions
        /\ _parsing_depth' = parsing_depth_set(_parsing_depth + 1)
        /\ stack' = Append(stack, [f |-> f, run_setup |-> run_setup, args |-> args,
                                   mode |-> mode, stage |-> 0])
        /\ hist' = [h EXCEPT
                      !.clears = IF run_setup THEN @ + 1 ELSE @,
                      !.nested_clears = IF run_setup /\ stack # <<>> THEN @ + 1 ELSE @]

\* A caller calls one of the two decorated methods on an idle parser.
setup_parse_call(f, args, ns) ==
    /\ outcome = "idle"
    /\ stack = <<>>
    /\ passes < MaxPasses
    /\ setup_parse_enter(f, args, "normal", NoHist)
    /\ namespace' = ns
    /\ arg_extras' = <<>>
    /\ outcome' = "running"
    /\ call' = [f |-> f, args |-> args, ns |-> ns, acts |-> _actions]
    /\ decl' = NoDecl
    /\ passes' = passes + 1
    /\ UNCHANGED <<environ, _actions, declared>>

\* argparse's parse_known_intermixed_args calls self.parse_known_args:
\* first with the positionals deactivated, then on the tokens that left.
setup_parse_nested ==
    /\ outcome = "running"
    /\ stack # <<>>
    /\ LET top == stack[Len(stack)]
       IN  /\ top.f = "parse_known_intermixed_args"
           /\ top.stage \in {0, 1}
           /\ setup_parse_enter("parse_known_args",
                                IF top.stage = 0 THEN top.args ELSE arg_extras,
                                IF top.stage = 0 THEN "sub1" ELSE "sub2", hist)
    /\ UNCHANGED <<environ, _actions, namespace, arg_extras, outcome, call, decl,
                   declared, passes>>

(***************************************************************************)
(* setup_parse, lines 158-166: the wrapped function has run with result b  *)
(* (status, acts, seen, ns, extras, lseen); the finally clause, then the   *)
(* post-pass when run_setup, then the return to the caller.  A failure     *)
(* leaves every setup_parse call in progress through its finally clause.   *)
(***************************************************************************)
\* lines 160-166, ps being what the post-pass gave when it ran (runs) and
\* what the wrapped function gave otherwise
setup_parse_finally(b, runs, ps) ==
    LET rest == SubSeq(stack, 1, Len(stack) - 1)
        d1   == parsing_depth_set(_parsing_depth - 1)
    IN  /\ _actions' = ps.acts
        /\ seen_actions' = ps.seen
        /\ namespace' = ps.ns
        /\ arg_extras' = ps.extras
        /\ _parsing_depth' = IF ps.status = "ok" THEN d1 ELSE unwind(d1, Len(rest))
        /\ stack' = CASE ps.status # "ok" -> <<>>
                      [] ps.status = "ok" /\ rest = <<>> -> <<>>
                      [] OTHER -> [rest EXCEPT ![Len(rest)].stage = @ + 1]
        /\ outcome' = CASE ps.status # "ok" -> ps.status
                        [] ps.status = "ok" /\ rest = <<>> -> "returned"
                        [] OTHER -> "running"
        /\ hist' = [hist EXCEPT
                      !.marked = @ \cup b.lseen,
                      !.error = ps.error,
                      !.posts = IF runs THEN @ + 1 ELSE @,
                      !.nested_posts = IF runs /\ d1 # 0 THEN @ + 1 ELSE @,
                      !.post = IF runs
                               THEN [ran |-> TRUE, status |-> ps.status,
                                     processed |-> ps.processed, called |-> ps.called,
                                     acts |-> b.acts, seen |-> b.seen, ns |-> b.ns,
                                     extras |-> b.extras]
                               ELSE @]
        /\ UNCHANGED <<environ, call, decl, declared, passes>>

\* the records of acts with value and presence read from the environment
\* as it is now
reread_environ(acts) ==
    [a \in 1..Len(acts) |->
        IF acts[a].env_var.has
        THEN [acts[a] EXCEPT !.env_var.v = map_f(environ, acts[a].env_var.k, <<>>).v,
                             !.env_var.p = map_f(environ, acts[a].env_var.k, <<>>).in]
        ELSE acts[a]]

\* the post-pass runs when the wrapped function returned to the outermost call
post_runs(b) == b.status = "ok" /\ stack[Len(stack)].run_setup

\* setup_parse_leave with a post-pass that reads os.environ again
setup_parse_leave_rereads(b) ==
    setup_parse_finally(b, post_runs(b),
        IF post_runs(b)
        THEN parse_args_post(reread_environ(b.acts), b.seen, b.ns, b.extras)
        ELSE [status |-> b.status, error |-> b.error, acts |-> b.acts,
              seen |-> b.seen, ns |-> b.ns, extras |-> b.extras,
              processed |-> <<>>, called |-> <<>>])

setup_parse_leave(b) ==
    setup_parse_finally(b, post_runs(b),
        IF post_runs(b) THEN parse_args_post(b.acts, b.seen, b.ns, b.extras)
        ELSE [status |-> b.status, error |-> b.error, acts |-> b.acts,
              seen |-> b.seen, ns |-> b.ns, extras |-> b.extras,
              processed |-> <<>>, called |-> <<>>])

\* The wrapped argparse.ArgumentParser.parse_known_args runs and returns.
setup_parse_return ==
    /\ outcome = "running"
    /\ stack # <<>>
    /\ stack[Len(stack)].f = "parse_known_args"
    /\ setup_parse_leave(parse_known_args(_actions, seen_actions,
                                          stack[Len(stack)].args, namespace,
                                          stack[Len(stack)].mode))

\* The wrapped parse_known_intermixed_args returns what its second call of
\* parse_known_args gave it.
setup_parse_return_intermixed ==
    /\ outcome = "running"
    /\ stack # <<>>
    /\ stack[Len(stack)].f = "parse_known_intermixed_args"
    /\ stack[Len(stack)].stage = 2
    /\ setup_parse_leave([status |-> "ok", error |-> "", acts |-> _actions,
                          seen |-> seen_actions,
                          ns |-> namespace, extras |-> arg_extras, lseen |-> {}])

\* The caller is done with the result of the call (or has caught its
\* SystemExit or ValueError) and the parser is idle again.
Forget ==
    /\ outcome \in {"returned", "exit", "ValueError"}
    /\ outcome' = "idle"
    /\ namespace' = EmptyNs
    /\ arg_extras' = <<>>
    /\ call' = NoCall
    /\ hist' = NoHist
    /\ UNCHANGED <<environ, _actions, seen_actions, _parsing_depth, stack, decl,
                   declared, passes>>

Methods == {"parse_known_args", "parse_known_intermixed_args"}

Call ==
    \E f \in Methods, args \in Argvs(_actions), ns \in Namespaces(_actions) :
        setup_parse_call(f, args, ns)

(***************************************************************************)
(* Spec: a parser with one user argument, declared in any way.             *)
(* SpecPair: a parser with up to MaxArgs user arguments, declared from     *)
(* PairKwargs.                                                             *)
(***************************************************************************)
DeclareOne == \E kw \in FullKwargs : Len(_actions) = 1 /\ add_argument(kw)

DeclarePair == \E kw \in PairKwargs : Len(_actions) < 1 + MaxArgs /\ add_argument(kw)

Next ==
    \/ DeclareOne
    \/ Call
    \/ setup_parse_nested
    \/ setup_parse_return
    \/ setup_parse_return_intermixed
    \/ Forget

Spec == Init /\ [][Next]_vars

NextPair ==
    \/ DeclarePair
    \/ Call
    \/ setup_parse_nested
    \/ setup_parse_return
    \/ setup_parse_return_intermixed
    \/ Forget

SpecPair == Init /\ [][NextPair]_vars

(***************************************************************************)
(* SpecEnv: a parser with one flag argument that has an environment key,   *)
(* in a process that changes its environment after the declaration.        *)
(***************************************************************************)
\* os.environ[k] = v
putenv(k, v) ==
    /\ outcome = "idle"
    /\ Len(_actions) > 1
    /\ environ' = (k :> v) @@ environ
    /\ environ' # environ
    /\ UNCHANGED <<_actions, seen_actions, _parsing_depth, stack, namespace,
                   arg_extras, outcome, call, decl, declared, passes, hist>>

\* del os.environ[k]
unsetenv(k) ==
    /\ outcome = "idle"
    /\ Len(_actions) > 1
    /\ k \in DOMAIN environ
    /\ environ' = [j \in DOMAIN environ \ {k} |-> environ[j]]
    /\ UNCHANGED <<_actions, seen_actions, _parsing_depth, stack, namespace,
                   arg_extras, outcome, call, decl, declared, passes, hist>>

\* The declarations of SpecEnv: a flag with a key and the built-in parser.
SnapKwargs ==
    { kw \in FullKwargs :
        /\ ~kw.positional
        /\ kw.nargs \in {"None", "N"}
        /\ kw.type = "int"
        /\ DOMAIN kw.env = {"env_var"}
        /\ kw.env["env_var"].ok }

DeclareSnap == \E kw \in SnapKwargs : Len(_actions) = 1 /\ add_argument(kw)

Setenv == \E k \in EnvKeys, v \in RawValues : putenv(k, v)

Unsetenv == \E k \in EnvKeys : unsetenv(k)

NextEnv ==
    \/ DeclareSnap
    \/ Setenv
    \/ Unsetenv
    \/ Call
    \/ setup_parse_nested
    \/ setup_parse_return
    \/ setup_parse_return_intermixed
    \/ Forget

SpecEnv == Init /\ [][NextEnv]_vars

(***************************************************************************)
(* One whole top-level call as a function of its inputs: the wrapped       *)
(* method, then the post-pass of setup_parse when the method returned.     *)
(***************************************************************************)
\* _add_action on a parser that has not parsed yet: every call_count is 0
fresh_actions(acts) == [a \in 1..Len(acts) |-> [acts[a] EXCEPT !.call_count = 0]]

\* the second parse_known_args call of parse_known_intermixed_args, on what
\* the first one left
intermixed_second(s1) ==
    IF s1.status # "ok" THEN s1
    ELSE parse_known_args(s1.acts, s1.seen, s1.extras, s1.ns, "sub2")

parse_known_intermixed_args(acts, seen, args, ns) ==
    intermixed_second(parse_known_args(acts, seen, args, ns, "sub1"))

\* lines 163-164 after the wrapped function gave b
setup_parse_post(b) ==
    IF b.status = "ok" THEN parse_args_post(b.acts, b.seen, b.ns, b.extras) ELSE b

\* setup_parse around f, entered at depth 0 (the seen set starts empty)
setup_parse(acts, f, args, ns) ==
    setup_parse_post(IF f = "parse_known_args"
                     THEN parse_known_args(acts, {}, args, ns, "normal")
                     ELSE parse_known_intermixed_args(acts, {}, args, ns))

(***************************************************************************)
(* Notions the claims are stated with.                                     *)
(***************************************************************************)
Finished == outcome \in {"returned", "exit", "ValueError"}

\* the flag arguments that declared an environment key
EnvArgs(acts) == { a \in 1..Len(acts) : ~IsPositional(acts[a]) /\ acts[a].env_var.has }

\* the flag of action a occurs on the command line of the call
OnCommandLine(a) == \E i \in 1..Len(call.args) : call.args[i] = _actions[a].option_strings

\* the command-line parse of the call in progress called the action of a,
\* that is, it gave a a value (hist.post holds the state it left)
CmdSupplied(a) == hist.post.acts[a].call_count > call.acts[a].call_count

\* what the environment value of a parses to, on its own
EnvParse(a) == env_f(call.acts, {}, a)

\* the variable of a was set when a was declared and parses to a value
HasEnvValue(a) ==
    /\ call.acts[a].env_var.p
    /\ EnvParse(a).status = "ok"
    /\ EnvParse(a).val # SUPPRESS

\* C1: after a pass that completes without error, the value of every flag
\* argument with an environment key is the command-line value if the command
\* line supplied one, otherwise the environment-derived value if the variable
\* was set at declaration, otherwise the value the caller's namespace held,
\* otherwise the static default.
C1_Expected(a) ==
    LET d == _actions[a].dest
    IN  CASE CmdSupplied(a) -> hist.post.ns[d]
          [] ~CmdSupplied(a) /\ HasEnvValue(a) -> EnvParse(a).val
          [] ~CmdSupplied(a) /\ ~HasEnvValue(a) /\ d \in DOMAIN call.ns -> call.ns[d]
          [] OTHER -> _actions[a].default

C1_Precedence ==
    outcome = "returned" =>
        \A a \in EnvArgs(_actions) :
            /\ _actions[a].dest \in DOMAIN namespace
            /\ namespace[_actions[a].dest] = C1_Expected(a)

Range(seq) == { seq[i] : i \in 1..Len(seq) }

\* the flag arguments declared with required=True and an environment key
RequiredEnvArgs ==
    { a \in EnvArgs(_actions) : declared[a].required }

\* C2: for an argument declared required with an environment key, a pass
\* whose command line does not give the argument does not fail for a missing
\* required argument when the variable was set (its environment value is
\* parsed instead, and is the value of the argument when the pass returns
\* one), and fails with the missing-required error when the variable was
\* unset.
C2_RequiredRelaxation ==
    Finished =>
        \A a \in RequiredEnvArgs :
            ~OnCommandLine(a) =>
                IF _actions[a].env_var.p
                THEN /\ hist.error # "required"
                     /\ hist.post.ran
                     /\ a \in Range(hist.post.processed)
                     /\ (outcome = "returned" /\ EnvParse(a).val # SUPPRESS
                            => namespace[_actions[a].dest] = EnvParse(a).val)
                ELSE /\ outcome = "exit"
                     /\ hist.error = "required"
                     /\ ~hist.post.ran

\* C2 witness: a pass without the flag of a required argument has returned
\* with the value of its environment variable.
C2_Witness ==
    /\ outcome = "returned"
    /\ \E a \in RequiredEnvArgs :
           /\ ~OnCommandLine(a)
           /\ _actions[a].env_var.p
           /\ EnvParse(a).val # SUPPRESS
           /\ namespace[_actions[a].dest] = EnvParse(a).val

\* the call in progress or just finished is one of the intermixed method
Intermixed == call.f = "parse_known_intermixed_args"

\* C3: within one outermost call of the intermixed method, which calls
\* parse_known_args twice, the seen set is cleared exactly once, at the
\* outermost entry, and never by a nested call, so that it holds the arguments
\* both nested calls have seen; and the post-pass runs exactly once, after the
\* parse of the outermost call has returned, never at nested depth.
C3_NestedPassIntegrity ==
    Intermixed =>
        /\ hist.clears = 1
        /\ hist.nested_clears = 0
        /\ hist.marked \subseteq seen_actions
        /\ hist.nested_posts = 0
        /\ hist.posts <= 1
        /\ hist.posts = 1 => stack = <<>>
        /\ outcome = "returned" => hist.posts = 1

\* C3 witness: an intermixed call has returned; its first nested call saw a
\* flag of the command line and its second gave a positional the value 5.
C3_Witness ==
    /\ Intermixed
    /\ outcome = "returned"
    /\ hist.posts = 1
    /\ \E a, q \in hist.marked :
           /\ ~IsPositional(_actions[a])
           /\ OnCommandLine(a)
           /\ IsPositional(_actions[q])
           /\ namespace[_actions[q].dest] = One(IntV(5))
           /\ {a, q} \subseteq seen_actions

\* the arguments whose environment parser the post-pass of the call called
Processed == IF hist.post.ran THEN Range(hist.post.processed) ELSE {}

\* the built-in environment parser is the one of argument a
BuiltIn(a) == call.acts[a].env_var.f = "env_var_parse"

\* the raw environment value of a splits into tokens
Tokenizes(a) == shlex_split(call.acts[a].env_var.v).ok

\* the tokens of the environment value of a
EnvTokens(a) == shlex_split(call.acts[a].env_var.v).toks

\* the most tokens an arity pattern can absorb out of m
Absorbs(nargs, m) ==
    CASE nargs \in {"None", "?"} -> Min(1, m)
      [] nargs = "N" -> Min(ExactN, m)
      [] OTHER -> m

\* C4: when an argument is resolved from the environment by the built-in
\* parser, its value is made from the leading tokens its arity pattern
\* absorbs, and every remaining token is appended, in order, to the extras
\* returned to the caller; when the pattern absorbs every token, nothing is
\* appended.
C4_LeftoverPropagation ==
    outcome = "returned" =>
        \A a \in Processed :
            BuiltIn(a) =>
                LET toks == EnvTokens(a)
                    n    == Absorbs(call.acts[a].nargs, Len(toks))
                    val  == get_values(call.acts[a], SubSeq(toks, 1, n), FALSE)
                IN  /\ arg_extras = hist.post.extras \o SubSeq(toks, n + 1, Len(toks))
                    /\ val.ok
                    /\ val.val # SUPPRESS => namespace[_actions[a].dest] = val.val

\* C4 witness: an argument of exactly two values whose variable holds
\* "1 '2 ' 3" got [1, 2], and "3" went to the extras.
C4_Witness ==
    /\ outcome = "returned"
    /\ \E a \in Processed :
           /\ BuiltIn(a)
           /\ call.acts[a].nargs = "N"
           /\ Len(EnvTokens(a)) = ExactN + 1
           /\ namespace[_actions[a].dest] = List(<<IntV(1), IntV(2)>>)
           /\ arg_extras = hist.post.extras \o << <<"3">> >>

\* C5: a declaration raises an error exactly when the environment key is
\* not a string, a custom environment parser comes without a key, the custom
\* parser is not callable, or a key is given for a positional; any other
\* declaration adds the argument, with an environment record exactly when a
\* key was given.
C5_DeclarationErrors ==
    decl.called =>
        LET env    == decl.kw.env
            key    == "env_var" \in DOMAIN env
            parser == "env_var_parse" \in DOMAIN env
            bad    == \/ (key /\ ~env["env_var"].ok)
                      \/ (parser /\ ~key)
                      \/ (parser /\ ~env["env_var_parse"].ok)
                      \/ (key /\ decl.kw.positional)
        IN  /\ decl.raised <=> bad
            /\ ~bad => /\ Len(_actions) = Len(decl.before) + 1
                       /\ _actions[Len(_actions)].env_var.has <=> key

\* C5 witness: the declaration of a positional with an environment key (a
\* string, no custom parser) has raised.
C5_Witness ==
    /\ decl.called
    /\ decl.raised
    /\ decl.kw.positional
    /\ DOMAIN decl.kw.env = {"env_var"}
    /\ decl.kw.env["env_var"].ok

\* what the arity patterns do with m tokens, as the claim lists it
ArityTable(nargs, m) ==
    CASE nargs = "N"    -> [ok |-> m >= ExactN, n |-> ExactN]
      [] nargs = "+"    -> [ok |-> m >= 1, n |-> m]
      [] nargs = "*"    -> [ok |-> TRUE, n |-> m]
      [] nargs = "?"    -> [ok |-> TRUE, n |-> Min(1, m)]
      [] nargs = "None" -> [ok |-> m >= 1, n |-> 1]

\* the number of values in a value of the namespace
Count(val) == IF val.kind = "list" THEN Len(val.items) ELSE 1

\* C6: matching the arity pattern of an argument against the m tokens of its
\* environment value fails when m is under the pattern's minimum, and
\* otherwise consumes the most leading tokens the pattern permits: n of m >= n
\* for exactly-n (leaving m - n), all for one-or-more and zero-or-more,
\* min(1, m) for zero-or-one.
C6_GreedyArity ==
    \A a \in Processed :
        BuiltIn(a) /\ Tokenizes(a) =>
            LET m == Len(EnvTokens(a))
                t == ArityTable(call.acts[a].nargs, m)
            IN  /\ ~t.ok => outcome = "exit" /\ hist.error = "ArgumentError"
                /\ t.ok /\ outcome = "returned" =>
                       /\ Len(arg_extras) = Len(hist.post.extras) + m - t.n
                       /\ t.n > 0 => Count(namespace[_actions[a].dest]) = t.n

\* C6 witness: a one-or-more argument whose variable holds three tokens got
\* three values and left none.
C6_Witness ==
    /\ outcome = "returned"
    /\ \E a \in Processed :
           /\ BuiltIn(a)
           /\ call.acts[a].nargs = "+"
           /\ Len(EnvTokens(a)) = 3
           /\ Count(namespace[_actions[a].dest]) = 3
           /\ arg_extras = hist.post.extras

\* how a call that gave the status st ends for its caller
OutcomeOf(st) == IF st = "ok" THEN "returned" ELSE st

\* C7: no state of the parser survives from one top-level pass to the next:
\* every pass starts with an empty seen set, and what a pass gives (how it
\* ends, the namespace and the extras) is what the same call gives on a
\* parser with the same declarations that has not parsed before.
C7_PassIndependence ==
    Finished =>
        /\ hist.clears = 1
        /\ outcome = OutcomeOf(setup_parse(fresh_actions(call.acts), call.f,
                                           call.args, call.ns).status)
        /\ outcome = "returned" =>
               /\ namespace = setup_parse(fresh_actions(call.acts), call.f,
                                          call.args, call.ns).ns
               /\ arg_extras = setup_parse(fresh_actions(call.acts), call.f,
                                           call.args, call.ns).extras

\* the command-line parse of the call has marked a and called its action
SeenNow(a) == a \in hist.post.seen /\ CmdSupplied(a)

\* C8: the post-pass processes the environment value of an argument if and
\* only if the argument has an environment record, the variable was set at
\* declaration, and the argument is not already seen in the current pass
\* (marked, with its action called by the command-line parse of this pass);
\* the value of an argument that is seen is neither tokenized nor applied.
C8_PostPassSelection ==
    hist.post.ran =>
        \A a \in 1..Len(call.acts) :
            a \in Processed <=>
                /\ call.acts[a].env_var.has
                /\ call.acts[a].env_var.p
                /\ ~SeenNow(a)

\* the post-pass of the call failed on an environment value
PostFailed == hist.post.ran /\ hist.post.status # "ok"

\* the argument the post-pass failed on: the last it processed
Failing == hist.post.processed[Len(hist.post.processed)]

\* the namespace holds for a what the command-line parse left for it
Untouched(a) ==
    LET d == call.acts[a].dest
    IN  IF d \in DOMAIN hist.post.ns
        THEN d \in DOMAIN namespace /\ namespace[d] = hist.post.ns[d]
        ELSE d \notin DOMAIN namespace

\* C9 (fail-fast part): after a failure of the post-pass no argument later in
\* declaration order has been processed or written, and the value of the
\* failing argument has not been written.
C9_NoLaterArgument ==
    PostFailed =>
        /\ \A a \in Processed : a <= Failing
        /\ Failing \notin Range(hist.post.called)
        /\ \A a \in Failing..Len(call.acts) : Untouched(a)

\* C9: the post-pass is fail-fast: a failure to tokenize, to match the arity
\* of or to convert the environment value of an argument is reported as one
\* argument error to the error reporter, no later argument is processed, and
\* the failing argument's value is not written to the namespace.
C9_FailFast ==
    PostFailed =>
        /\ outcome = "exit"
        /\ hist.error = "ArgumentError"
        /\ C9_NoLaterArgument

\* C10: the depth counter is the number of decorated parse calls in
\* progress: one more per entry, one less per exit whether the wrapped parse
\* returns or fails, never below zero, zero when no call is in progress; only
\* the call entered at depth zero resets the seen set and runs the post-pass,
\* and every top-level call does, also after a failed pass.
C10_DepthBalanced ==
    /\ _parsing_depth = Len(stack)
    /\ _parsing_depth >= 0
    /\ outcome # "running" => _parsing_depth = 0
    /\ \A i \in 1..Len(stack) : stack[i].run_setup <=> i = 1
    /\ hist.nested_clears = 0
    /\ hist.nested_posts = 0
    /\ outcome = "running" => hist.clears = 1
    /\ outcome = "returned" => hist.posts = 1

\* C10 witness: the second top-level call on a parser has failed inside a
\* nested parse_known_args call, two calls deep, and the depth is zero again.
C10_Witness ==
    /\ passes = 2
    /\ Intermixed
    /\ outcome = "exit"
    /\ hist.error = "ArgumentError"
    /\ ~hist.post.ran
    /\ hist.clears = 1
    /\ _parsing_depth = 0

\* the record add_argument attaches at position a for the key k, from the
\* environment as it is in the state of the declaration
SnapshotOf(a, k) ==
    /\ _actions'[a].env_var.a = a
    /\ _actions'[a].env_var.k = k
    /\ _actions'[a].env_var.p = (k \in DOMAIN environ)
    /\ k \in DOMAIN environ => _actions'[a].env_var.v = environ[k]

\* a step appends at most one action, whose record is a snapshot of the
\* environment, and changes neither the record nor the required flag of an
\* action declared before
RecordsKept ==
    /\ Len(_actions') >= Len(_actions)
    /\ \A a \in 1..Len(_actions) :
           /\ _actions'[a].env_var = _actions[a].env_var
           /\ _actions'[a].required = _actions[a].required
    /\ \A a \in (Len(_actions) + 1)..Len(_actions') :
           _actions'[a].env_var.has => SnapshotOf(a, _actions'[a].env_var.k)

\* an argument with a record is required exactly when it was declared so
\* and the variable was unset at its declaration
RequiredBySnapshot ==
    \A a \in EnvArgs(_actions) :
        /\ _actions[a].env_var.a = a
        /\ _actions[a].required <=> (declared[a].required /\ ~_actions[a].env_var.p)

\* C11: the record of an argument is a snapshot fixed at declaration: key,
\* raw value and presence are read from the environment when the argument is
\* declared and no later step changes them, whatever happens to the variable,
\* nor does any change whether the argument is required; the action the
\* record refers to is the one it is attached to.
C11_Snapshot == [](RequiredBySnapshot) /\ [][RecordsKept]_vars

\* C11 witness: the variable was set when the argument was declared and is
\* unset now, and a pass has returned with the value of the snapshot.
C11_Witness ==
    /\ outcome = "returned"
    /\ "BAR" \notin DOMAIN environ
    /\ \E a \in Processed :
           /\ _actions[a].env_var.p
           /\ _actions[a].env_var.k = "BAR"
           /\ namespace[_actions[a].dest]
                  = get_values(call.acts[a],
                               SubSeq(EnvTokens(a), 1,
                                      Absorbs(call.acts[a].nargs, Len(EnvTokens(a)))),
                               FALSE).val

\* the environment parser of a gives the suppressed marker
EnvSuppressed(a) == EnvParse(a).status = "ok" /\ EnvParse(a).val = SUPPRESS

\* C12: when the environment parser of an argument gives SUPPRESS, the
\* post-pass writes no value for the argument (what the namespace held for it
\* before the post-pass stays), does not call its action, yet marks the
\* argument seen and appends its leftover tokens to the extras.
C12_SuppressedValue ==
    outcome = "returned" =>
        \A a \in Processed :
            EnvSuppressed(a) =>
                /\ Untouched(a)
                /\ a \notin Range(hist.post.called)
                /\ _actions[a].call_count = hist.post.acts[a].call_count
                /\ a \in seen_actions
                /\ arg_extras = hist.post.extras \o EnvParse(a).extra

\* C12 witness: a parser gave SUPPRESS and a leftover token for an argument
\* the command line did not give; the default is still the value and the
\* token is the last of the extras.
C12_Witness ==
    /\ outcome = "returned"
    /\ \E a \in Processed :
           /\ EnvSuppressed(a)
           /\ EnvParse(a).extra # <<>>
           /\ ~OnCommandLine(a)
           /\ _actions[a].dest \notin DOMAIN call.ns
           /\ namespace[_actions[a].dest] = _actions[a].default
           /\ arg_extras = hist.post.extras \o EnvParse(a).extra
           /\ a \in seen_actions

\* what the custom parser of a returns for the raw value of the record
CustomResult(a) == custom_parse(call.acts, {}, a, call.acts[a].env_var.v)

\* C13: every argument the post-pass has processed is in the seen set when
\* the pass ends, with the built-in parser and with a custom one that does
\* not go through _get_values; with a custom parser nothing is tokenized or
\* matched (no raw value makes the pass fail) and the value and the leftover
\* the parser returned are used as they are.
C13_ProcessedIsSeen ==
    Finished =>
        \A a \in Processed :
            /\ a \in seen_actions
            /\ ~BuiltIn(a) =>
                   /\ outcome = "returned"
                   /\ arg_extras = hist.post.extras \o CustomResult(a).extra
                   /\ CustomResult(a).val # SUPPRESS =>
                          namespace[_actions[a].dest] = CustomResult(a).val

\* C13 witness: a custom parser got the raw value "'1", which does not
\* tokenize; the pass returned its result and the argument is seen.
C13_Witness ==
    /\ outcome = "returned"
    /\ \E a \in Processed :
           /\ ~BuiltIn(a)
           /\ ~Tokenizes(a)
           /\ a \in seen_actions
           /\ namespace[_actions[a].dest] = One(IntV(2))
           /\ arg_extras = hist.post.extras \o << <<"c">> >>

\* s is t with some of its elements left out
RECURSIVE IsSubsequence(_, _)
IsSubsequence(s, t) ==
    IF s = <<>> THEN TRUE
    ELSE IF t = <<>> THEN FALSE
    ELSE IF Head(s) = Head(t) THEN IsSubsequence(Tail(s), Tail(t))
    ELSE IsSubsequence(s, Tail(t))

\* the leftover tokens of the arguments of as, one argument after the other
RECURSIVE EnvLeftovers(_)
EnvLeftovers(as) ==
    IF as = <<>> THEN <<>> ELSE EnvParse(Head(as)).extra \o EnvLeftovers(Tail(as))

\* C14: the extras a pass returns are, in this order, the tokens the
\* command-line parse left, in command-line order, then the leftover tokens of
\* each argument resolved from the environment, the arguments in declaration
\* order and the tokens of each in token order; the post-pass removes and
\* reorders nothing that is in the extras already.
C14_ExtrasOrder ==
    hist.post.ran =>
        /\ IsSubsequence(hist.post.extras, call.args)
        /\ \A i, j \in 1..Len(hist.post.processed) :
               i < j => hist.post.processed[i] < hist.post.processed[j]
        /\ Len(arg_extras) >= Len(hist.post.extras)
        /\ SubSeq(arg_extras, 1, Len(hist.post.extras)) = hist.post.extras
        /\ outcome = "returned" =>
               arg_extras = hist.post.extras \o EnvLeftovers(hist.post.processed)

\* C14 witness: a pass whose command line left a token has resolved two
\* arguments from the environment, each with leftover tokens of its own.
C14_Witness ==
    /\ outcome = "returned"
    /\ hist.post.extras # <<>>
    /\ Len(hist.post.processed) = 2
    /\ \A a \in Processed : EnvParse(a).extra # <<>>
    /\ EnvParse(hist.post.processed[1]).extra # EnvParse(hist.post.processed[2]).extra
    /\ arg_extras = hist.post.extras \o EnvLeftovers(hist.post.processed)

\* the declaration that raised was of a positional with an environment key
\* and nothing else wrong (the key a string, a custom parser callable)
RaisedForPositional ==
    /\ decl.called
    /\ decl.raised
    /\ decl.kw.positional
    /\ "env_var" \in DOMAIN decl.kw.env
    /\ \A k \in DOMAIN decl.kw.env : decl.kw.env[k].ok

\* C15 (the cases of lines 92-99): a declaration that raised for another
\* reason than a positional with a key has left the declared arguments as
\* they were.
C15_EarlyCasesUnchanged ==
    decl.called /\ decl.raised /\ ~RaisedForPositional => _actions = decl.before

\* C15: a declaration that raised a declaration error, in any of the four
\* cases, has left the parser's list of declared arguments as it was before
\* the call.
C15_FailedDeclaration ==
    decl.called /\ decl.raised => _actions = decl.before

====
